---- MODULE Spec2Model ----
(***************************************************************************)
(* PR-reviewer: the reviewer-assignment engine (internal/service) run by   *)
(* the worker pool against the Postgres repository (internal/repo).        *)
(*                                                                         *)
(* Every repository method is one atomic step (one SQL statement or one    *)
(* transaction); a service operation is the sequence of its repository     *)
(* calls, so jobs running on different workers interleave between calls.   *)
(* Storage calls succeed unless the data makes them fail (missing row,     *)
(* primary-key conflict); job contexts are not canceled in Spec.           *)
(***************************************************************************)
EXTENDS Integers, FiniteSets, Sequences, Bags, TLC

\* ---------------------------------------------------------------- bounds
NumUsers == 4           \* users in storage
NumPRs == 1            \* pull-request ids the jobs may name
MaxJobs == 2           \* jobs pulled by the workers in one behaviour
NumJobs == 3           \* EnqueueJob calls in one behaviour of the dispatcher
jobQueueSize == 2      \* capacity of s.jobs (200 in the code)

\* ------------------------------------------------------ program constants
numWorkers == 3
maxReviewers == 2

Users == 1..NumUsers
PRIds == 1..NumPRs
Workers == 1..numWorkers
JobIds == 1..NumJobs
Teams == {1, 2}

\* the teams as AddTeam set them up: u1..u4 form team 1, later users team 2
HomeTeam(u) == IF u <= 4 THEN 1 ELSE 2

NoPR == [status |-> "NONE", author |-> 0, reviewers |-> {}, needMore |-> FALSE,
         createdAt |-> 0, mergedAt |-> 0]

VARIABLES
    team,         \* users.team_name
    active,       \* users.is_active
    prs,          \* pull_requests joined with pr_reviewers, per id
    clock,        \* time.Now(), one tick per reading
    run,          \* the calls the workers are running: a bag of their locals
    last,         \* the JobResult of the call that returned last
    jobsStarted,  \* jobs pulled so far
    queue,        \* s.jobs: the ids of the buffered jobs, oldest first
    chan,         \* which of s.stopped and s.jobs are closed
    wpc,          \* per worker: where it is in workerLoop
    wjob,         \* per worker: the job it received
    wres,         \* per worker: the error of the JobResult it is about to send
    jpc,          \* per job: where its EnqueueJob call is
    resp,         \* the JobResult last written to a RespCh: its job and its error
    sends,        \* per job: the JobResults written to its RespCh so far
    pulls,        \* per job: how many times a worker received it
    stopPc,       \* where the StopWorkers call is
    hpc           \* per job: where the request handler that submitted it is

\* users.team_name is written by AddTeam (InsertTeam's upsert), which is not
\* a job: no step of the engine or of the dispatcher changes it, and it is
\* framed with the dispatcher's variables. So is hpc: the handlers' waits
\* are steps of their own.
engineVars == <<active, prs, clock, run, last, jobsStarted>>
poolVars == <<queue, chan, wpc, wjob, wres, jpc, resp, sends, pulls, stopPc, team, hpc>>
vars == <<active, prs, clock, run, last, jobsStarted,
          queue, chan, wpc, wjob, wres, jpc, resp, sends, pulls, stopPc, team, hpc>>

TeamOf(u) == team[u]
TeamMembers(t) == {u \in Users : TeamOf(u) = t}

\* ------------------------------------------------------------ sequences
RECURSIVE SortedSeq(_)
SortedSeq(S) ==
    IF S = {} THEN <<>>
    ELSE LET m == CHOOSE x \in S : \A y \in S : x <= y
         IN <<m>> \o SortedSeq(S \ {m})

\* ORDER BY pr.created_at DESC
RECURSIVE ByCreatedDesc(_, _)
ByCreatedDesc(S, store) ==
    IF S = {} THEN <<>>
    ELSE LET m == CHOOSE x \in S : \A y \in S :
                     \/ store[x].createdAt > store[y].createdAt
                     \/ (store[x].createdAt = store[y].createdAt /\ x <= y)
         IN <<m>> \o ByCreatedDesc(S \ {m}, store)

\* ------------------------------------------------------------ repository
RepoGetPRFound(p) == prs[p].status # "NONE"

\* GetUserTeam finds the row of the user
RepoGetUserTeamFound(u) == u \in Users

RepoGetActiveTeamMembersExcept(t, except) ==
    {u \in TeamMembers(t) : active[u] /\ u # except}

RepoGetPRsByReviewer(u) ==
    ByCreatedDesc({p \in PRIds : prs[p].status # "NONE" /\ u \in prs[p].reviewers}, prs)

\* DELETE old, INSERT new in one transaction; the primary key
\* (pull_request_id, user_id) rejects a reviewer that is still recorded
RepoReplaceConflict(revs, old, new) == new \in (revs \ {old})

\* the failed INSERT ends the transaction: the deferred tx.Rollback() undoes
\* the DELETE
RepoReplaceRollback_DeleteKept(revs, old) == revs \ {old}

RepoReplaceRollback(revs, old) == revs

\* a ReplaceReviewer without its DELETE
RepoReplaceReviewer_InsertOnly(revs, old, new) == revs \cup {new}

RepoReplaceReviewer(revs, old, new) == (revs \ {old}) \cup {new}

\* UPDATE pull_requests SET status = 'MERGED', merged_at = t
RepoMergePR_Toggle(pr, t) ==
    [pr EXCEPT !.status = IF @ = "MERGED" THEN "OPEN" ELSE "MERGED", !.mergedAt = t]

RepoMergePR(pr, t) == [pr EXCEPT !.status = "MERGED", !.mergedAt = t]

\* UPDATE users SET is_active = b WHERE team_name = t
RepoSetTeamActive_Noop(t, b) == active

RepoSetTeamActive(t, b) == [u \in Users |-> IF TeamOf(u) = t THEN b ELSE active[u]]

\* ------------------------------------------------------------ service
NeedMoreReviewers(n) == n < maxReviewers

CreateLoopContinues_StopsAtOne(selected, cands) ==
    Cardinality(selected) < 1 /\ cands # {}

CreateLoopContinues(selected, cands) ==
    Cardinality(selected) < maxReviewers /\ cands # {}

MergeAlreadyMerged_Never(status) == FALSE

MergeAlreadyMerged(status) == status = "MERGED"

ReassignIsMerged_Skipped(status) == FALSE

ReassignIsMerged(status) == status = "MERGED"

ReassignAvail_Unfiltered(cands, assigned, old) == cands

ReassignAvail(cands, assigned, old) == {c \in cands : c # old /\ c \notin assigned}

CascadeAvail(cands, assigned) == {c \in cands : c \notin assigned}

\* the pull requests DeactivateTeam passes over: those not OPEN
CascadeSkips_Never(status) == FALSE

CascadeSkips(status) == status # "OPEN"

\* the team whose active members reassignReviewer draws from: the team
\* being deactivated, passed down by DeactivateTeam
CascadeTeam(teamName, author) == teamName

Idle == [pc |-> "idle", typ |-> "none", pr |-> 0, uid |-> 0, team |-> 0,
         author |-> 0, assigned |-> {}, cands |-> {}, selected |-> {}, newUID |-> 0,
         members |-> <<>>, prq |-> <<>>, revs |-> <<>>, dirty |-> FALSE,
         job |-> 0, ctx |-> "", name |-> 1]

NoResult == [typ |-> "none", pr |-> 0, uid |-> 0, newUID |-> 0,
             err |-> "", wrote |-> FALSE, ret |-> NoPR, job |-> 0]

\* the JobResult handleJob returns, with the arguments of the call
Result(rec, e, wr, data) ==
    [typ |-> rec.typ, pr |-> rec.pr, uid |-> rec.uid, newUID |-> rec.newUID,
     err |-> e, wrote |-> wr, ret |-> data, job |-> rec.job]

\* ------------------------------------------------------------ worker pool
\* The numWorkers goroutines run the same loop and differ in nothing but
\* their log tag, so the pool is the bag of the calls in progress.
Running == BagToSet(run)

\* workerLoop: an idle worker receives the next job
Begin ==
    /\ BagCardinality(run) < numWorkers
    /\ jobsStarted < MaxJobs

Job(t, p, u) == [Idle EXCEPT !.typ = t, !.pr = p, !.uid = u]

\* The pull_request_id of a payload: an id that is in use, or the next one.
\* The ids are opaque strings to the code, so unused ids are taken in order.
UsedPRIds ==
    {p \in PRIds : prs[p].status # "NONE"}
        \cup {r.pr : r \in {x \in Running : x.typ = "create_pr"}}

PayloadPRIds == {p \in PRIds : \A q \in 1..(p - 1) : q \in UsedPRIds}

\* What a job carries: its Type, whether its Payload has the keys and types
\* its Type requires, the error of its Ctx ("" while the context is not
\* done) and the arguments.
NoPayload == [typ |-> "none", ok |-> TRUE, ctx |-> "", pr |-> 0, uid |-> 0,
              team |-> 0, author |-> 0, b |-> FALSE]

NoJob == [id |-> 0, pl |-> NoPayload]

\* worker w is in the handleJob call of job j
InHandleJob(w, j) == wjob[w].id = j /\ wpc[w] \in {"handle", "busy"}

\* workerLoop around handleJob, for a job that came through the queue (its
\* id is not 0): the worker that received it is inside handleJob ...
PoolStarted(j) ==
    IF j = 0 THEN UNCHANGED poolVars
    ELSE /\ wpc' = [w \in Workers |-> IF InHandleJob(w, j) THEN "busy" ELSE wpc[w]]
         /\ wjob' = [w \in Workers |->
                      IF InHandleJob(w, j) THEN [wjob[w] EXCEPT !.pl = NoPayload]
                      ELSE wjob[w]]
         /\ UNCHANGED <<queue, chan, wres, jpc, resp, sends, pulls, team, hpc, stopPc>>

\* ... and has the JobResult that handleJob returned
PoolReturned(j, res) ==
    IF j = 0 THEN UNCHANGED poolVars
    ELSE /\ wpc' = [w \in Workers |-> IF InHandleJob(w, j) THEN "reply" ELSE wpc[w]]
         /\ wres' = [w \in Workers |-> IF InHandleJob(w, j) THEN res.err ELSE wres[w]]
         /\ wjob' = [w \in Workers |->
                      IF InHandleJob(w, j) THEN [wjob[w] EXCEPT !.pl = NoPayload]
                      ELSE wjob[w]]
         /\ UNCHANGED <<queue, chan, jpc, resp, sends, pulls, team, hpc, stopPc>>

\* a received job whose call goes on after its first repository call
Start(rec) ==
    /\ run' = run (+) SetToBag({rec}) /\ last' = last
    /\ PoolStarted(rec.job)

\* a received job whose call returns after its first repository call
StartDone(res) ==
    /\ run' = run /\ last' = res
    /\ PoolReturned(res.job, res)

\* the call goes on with its next repository call
Continue(r, rec) ==
    /\ run' = (run (-) SetToBag({r})) (+) SetToBag({rec}) /\ last' = last
    /\ UNCHANGED poolVars

\* the call returns: handleJob hands the JobResult to workerLoop
Done(r, res) ==
    /\ run' = run (-) SetToBag({r}) /\ last' = res
    /\ PoolReturned(r.job, res)

\* The context of the call r is done: ctx.Done() is closed wherever the
\* service looks at it, and a repository call made with it returns the
\* context's error without touching storage (database/sql).
CtxIsDone_Never(r) == FALSE

CtxIsDone(r) == r.ctx # ""

\* the caller's cancel(), or the deadline of the job's context
CtxCancel(r) ==
    /\ r.ctx = ""
    /\ run' = (run (-) SetToBag({r})) (+) SetToBag({[r EXCEPT !.ctx = "Canceled"]})
    /\ UNCHANGED <<active, prs, clock, last, jobsStarted>>
    /\ UNCHANGED poolVars

\* the jobs whose context CancelSpec cancels while they run
CancelableKinds == {"reassign_pr", "deactivate_team"}

Ctx_Cancel(r) == r.typ \in CancelableKinds /\ CtxCancel(r)

\* the context of a running create_pr job is canceled
CreatePR_Cancel(r) == r.typ = "create_pr" /\ CtxCancel(r)

\* a change of users.is_active, seen by the CreatePR calls in progress
Dirtied(r, newActive) ==
    IF r.typ = "create_pr" /\ r.pc # "cr_cands" /\ newActive # active
    THEN [r EXCEPT !.dirty = TRUE] ELSE r

RECURSIVE Copies(_, _, _)
Copies(S, x, newActive) ==
    IF S = {} THEN 0
    ELSE LET r == CHOOSE y \in S : TRUE
         IN (IF Dirtied(r, newActive) = x THEN CopiesIn(r, run) ELSE 0)
            + Copies(S \ {r}, x, newActive)

MarkDirty(newActive) ==
    [x \in {Dirtied(r, newActive) : r \in Running} |-> Copies(Running, x, newActive)]

\* ------------------------------------------------------------ SetUserActive
SetUserActive_Call(job, b) ==
    LET na == [active EXCEPT ![job.uid] = b]
        res == Result(job, "", TRUE, NoPR)
    IN /\ active' = na
       /\ run' = MarkDirty(na)
       /\ last' = res
       /\ PoolReturned(job.job, res)
       /\ UNCHANGED <<prs, clock>>

SetUserActive ==
    /\ Begin
    /\ jobsStarted' = jobsStarted + 1
    /\ \E u \in Users, b \in BOOLEAN :
          SetUserActive_Call(Job("set_user_active", 0, u), b)

\* ------------------------------------------------------------ CreatePR
\* validatePullRequest: an id, a name or an author that is the empty string
\* (0 here) is refused
ValidatePullRequest(job) ==
    IF job.pr = 0 THEN "pull_request_id required"
    ELSE IF job.name = 0 THEN "pull_request_name required"
    ELSE IF job.author = 0 THEN "author_id required"
    ELSE ""

\* a CreatePR that writes the row before it looks for it
CreatePR_Call_Overwrites(job) ==
    /\ IF ValidatePullRequest(job) # ""
       THEN /\ StartDone(Result(job, ValidatePullRequest(job), FALSE, NoPR))
            /\ prs' = prs
       ELSE IF RepoGetPRFound(job.pr)
       THEN /\ StartDone(Result(job, "ErrPRExists", FALSE, NoPR))
            /\ prs' = [prs EXCEPT ![job.pr].status = "OPEN", ![job.pr].reviewers = {}]
       ELSE /\ Start([job EXCEPT !.pc = "cr_cands"])
            /\ prs' = prs
    /\ UNCHANGED <<active, clock>>

\* validatePullRequest and the GetPR that looks for the id
CreatePR_Call(job) ==
    /\ IF ValidatePullRequest(job) # ""
       THEN /\ StartDone(Result(job, ValidatePullRequest(job), FALSE, NoPR))
            /\ prs' = prs
       ELSE IF RepoGetPRFound(job.pr)
       THEN /\ StartDone(Result(job, "ErrPRExists", FALSE, NoPR))
            /\ prs' = prs
       ELSE /\ Start([job EXCEPT !.pc = "cr_cands"])
            /\ prs' = prs
    /\ UNCHANGED <<active, clock>>

CreatePR_Exists ==
    /\ Begin
    /\ jobsStarted' = jobsStarted + 1
    /\ \E p \in PayloadPRIds, a \in Users :
          CreatePR_Call([Job("create_pr", p, 0) EXCEPT !.author = a])

\* the jobs whose pull request validatePullRequest refuses, and the one
\* whose author is not in users
CreatePR_Invalid ==
    /\ Begin
    /\ jobsStarted' = jobsStarted + 1
    /\ \E p \in PayloadPRIds :
          \E job \in { [Job("create_pr", 0, 0) EXCEPT !.author = 1],
                        [Job("create_pr", p, 0) EXCEPT !.author = 1, !.name = 0],
                        [Job("create_pr", p, 0) EXCEPT !.author = 0],
                        [Job("create_pr", p, 0) EXCEPT !.author = NumUsers + 1] } :
             CreatePR_Call(job)

\* GetUserTeam, whose every error is returned as ErrNotFound, and
\* GetActiveTeamMembersExcept
CreatePR_Candidates(r) ==
    /\ r.pc = "cr_cands"
    /\ IF CtxIsDone(r) \/ ~RepoGetUserTeamFound(r.author)
       THEN Done(r, Result(r, "ErrNotFound", FALSE, NoPR))
       ELSE LET cs == RepoGetActiveTeamMembersExcept(TeamOf(r.author), r.author)
            IN Continue(r, [r EXCEPT !.cands = cs, !.dirty = FALSE,
                                         !.pc = IF CreateLoopContinues({}, cs)
                                                THEN "cr_pick" ELSE "cr_insert"])
    /\ UNCHANGED <<active, prs, clock, jobsStarted>>

\* one iteration of the selection loop: random index, GetUser, keep or discard
\* a selection loop that does not look at ctx.Done()
CreatePR_Pick_NoCtxCheck(r) ==
    /\ r.pc = "cr_pick"
    /\ \E u \in r.cands :
          LET sel == IF ~CtxIsDone(r) /\ active[u] THEN r.selected \cup {u} ELSE r.selected
              cs == r.cands \ {u}
              more == CreateLoopContinues(sel, cs)
          IN Continue(r, [r EXCEPT !.selected = sel,
                                       !.cands = IF more THEN cs ELSE {},
                                       !.pc = IF more THEN "cr_pick" ELSE "cr_insert"])
    /\ UNCHANGED <<active, prs, clock, jobsStarted>>

\* a selection loop that leaves the candidate it selected in the pool
CreatePR_Pick_KeepsSelected(r) ==
    /\ r.pc = "cr_pick"
    /\ IF CtxIsDone(r) THEN Done(r, Result(r, r.ctx, FALSE, NoPR))
       ELSE \E u \in r.cands :
          LET sel == IF active[u] THEN r.selected \cup {u} ELSE r.selected
              cs == IF active[u] THEN r.cands ELSE r.cands \ {u}
              more == CreateLoopContinues(sel, cs)
          IN Continue(r, [r EXCEPT !.selected = sel,
                                       !.cands = IF more THEN cs ELSE {},
                                       !.pc = IF more THEN "cr_pick" ELSE "cr_insert"])
    /\ UNCHANGED <<active, prs, clock, jobsStarted>>

CreatePR_Pick(r) ==
    /\ r.pc = "cr_pick"
    /\ IF CtxIsDone(r) THEN Done(r, Result(r, r.ctx, FALSE, NoPR))
       ELSE \E u \in r.cands :
          LET sel == IF active[u] THEN r.selected \cup {u} ELSE r.selected
              cs == r.cands \ {u}
              more == CreateLoopContinues(sel, cs)
          IN Continue(r, [r EXCEPT !.selected = sel,
                                       !.cands = IF more THEN cs ELSE {},
                                       !.pc = IF more THEN "cr_pick" ELSE "cr_insert"])
    /\ UNCHANGED <<active, prs, clock, jobsStarted>>

CreatePR_Insert(r) ==
    /\ r.pc = "cr_insert"
    /\ clock' = clock + 1
    /\ IF CtxIsDone(r)
       THEN /\ Done(r, Result(r, r.ctx, FALSE, NoPR))
            /\ prs' = prs
       ELSE IF RepoGetPRFound(r.pr)
       THEN /\ Done(r, Result(r, "internal", FALSE, NoPR))
            /\ prs' = prs
       ELSE /\ prs' = [prs EXCEPT ![r.pr] =
                         [status |-> "OPEN", author |-> r.author,
                          reviewers |-> r.selected,
                          needMore |-> NeedMoreReviewers(Cardinality(r.selected)),
                          createdAt |-> clock + 1, mergedAt |-> 0]]
            /\ Continue(r, [r EXCEPT !.pc = "cr_fetch"])
    /\ UNCHANGED <<active, jobsStarted>>

CreatePR_Fetch(r) ==
    /\ r.pc = "cr_fetch"
    /\ IF CtxIsDone(r) THEN Done(r, Result(r, r.ctx, FALSE, NoPR))
       ELSE Done(r, Result(r, "", TRUE, prs[r.pr]))
    /\ UNCHANGED <<active, prs, clock, jobsStarted>>

\* ------------------------------------------------------------ MergePR
MergePR_Call(job) ==
    /\ LET p == job.pr
       IN IF ~RepoGetPRFound(p) THEN StartDone(Result(job, "ErrNotFound", FALSE, NoPR))
          ELSE IF MergeAlreadyMerged(prs[p].status)
               THEN StartDone(Result(job, "", FALSE, prs[p]))
               ELSE Start([job EXCEPT !.pc = "mg_update"])
    /\ UNCHANGED <<active, prs, clock>>

MergePR_Get ==
    /\ Begin
    /\ jobsStarted' = jobsStarted + 1
    /\ \E p \in PayloadPRIds : MergePR_Call(Job("merge_pr", p, 0))

MergePR_Update(r) ==
    /\ r.pc = "mg_update"
    /\ clock' = clock + 1
    /\ prs' = [prs EXCEPT ![r.pr] = RepoMergePR(@, clock + 1)]
    /\ Done(r, Result(r, "", TRUE, prs'[r.pr]))
    /\ UNCHANGED <<active, jobsStarted>>

\* ------------------------------------------------------------ Reassign
Reassign_Call_AssignedFirst(job) ==
    /\ LET p == job.pr
           u == job.uid
       IN IF ~RepoGetPRFound(p) THEN StartDone(Result(job, "ErrNotFound", FALSE, NoPR))
          ELSE IF u \notin prs[p].reviewers
               THEN StartDone(Result(job, "ErrNotAssigned", FALSE, NoPR))
          ELSE IF ReassignIsMerged(prs[p].status)
               THEN StartDone(Result(job, "ErrPRMerged", FALSE, NoPR))
          ELSE Start([job EXCEPT !.pc = "re_old", !.assigned = prs[p].reviewers])
    /\ UNCHANGED <<active, prs, clock>>

Reassign_Call(job) ==
    /\ LET p == job.pr
           u == job.uid
       IN IF ~RepoGetPRFound(p) THEN StartDone(Result(job, "ErrNotFound", FALSE, NoPR))
          ELSE IF ReassignIsMerged(prs[p].status)
               THEN StartDone(Result(job, "ErrPRMerged", FALSE, NoPR))
          ELSE IF u \notin prs[p].reviewers
               THEN StartDone(Result(job, "ErrNotAssigned", FALSE, NoPR))
          ELSE Start([job EXCEPT !.pc = "re_old", !.assigned = prs[p].reviewers])
    /\ UNCHANGED <<active, prs, clock>>

Reassign_Get ==
    /\ Begin
    /\ jobsStarted' = jobsStarted + 1
    /\ \E p \in PayloadPRIds, u \in Users : Reassign_Call(Job("reassign_pr", p, u))

Reassign_Old(r) ==
    /\ r.pc = "re_old"
    /\ IF CtxIsDone(r) THEN Done(r, Result(r, "ErrNotFound", FALSE, NoPR))
       ELSE IF ~active[r.uid] THEN Done(r, Result(r, "ErrUserInactive", FALSE, NoPR))
       ELSE Continue(r, [r EXCEPT !.pc = "re_cands"])
    /\ UNCHANGED <<active, prs, clock, jobsStarted>>

\* GetUserTeam, GetActiveTeamMembersExcept(team, ""), the filter and the pick
Reassign_Candidates(r) ==
    /\ r.pc = "re_cands"
    /\ LET cs == RepoGetActiveTeamMembersExcept(TeamOf(r.uid), 0)
           avail == ReassignAvail(cs, r.assigned, r.uid)
       IN IF CtxIsDone(r) THEN Done(r, Result(r, r.ctx, FALSE, NoPR))
          ELSE IF avail = {}
          THEN Done(r, Result(r, "ErrNoCandidate", FALSE, NoPR))
          ELSE \E n \in avail : Continue(r, [r EXCEPT !.pc = "re_verify", !.newUID = n])
    /\ UNCHANGED <<active, prs, clock, jobsStarted>>

\* a Reassign that goes back to its candidates when the one it picked is
\* found inactive
Reassign_Verify_Retry(r) ==
    /\ r.pc = "re_verify"
    /\ IF CtxIsDone(r) THEN Done(r, Result(r, "ErrNoCandidate", FALSE, NoPR))
       ELSE IF ~active[r.newUID] THEN Continue(r, [r EXCEPT !.pc = "re_cands", !.newUID = 0])
       ELSE Continue(r, [r EXCEPT !.pc = "re_replace"])
    /\ UNCHANGED <<active, prs, clock, jobsStarted>>

Reassign_Verify(r) ==
    /\ r.pc = "re_verify"
    /\ IF CtxIsDone(r) \/ ~active[r.newUID]
       THEN Done(r, Result(r, "ErrNoCandidate", FALSE, NoPR))
       ELSE Continue(r, [r EXCEPT !.pc = "re_replace"])
    /\ UNCHANGED <<active, prs, clock, jobsStarted>>

Reassign_Replace(r) ==
    /\ r.pc = "re_replace"
    /\ LET p == r.pr
           revs == prs[p].reviewers
       IN IF CtxIsDone(r)
          THEN /\ prs' = prs
               /\ Done(r, Result(r, r.ctx, FALSE, NoPR))
          ELSE IF RepoReplaceConflict(revs, r.uid, r.newUID)
          THEN /\ prs' = [prs EXCEPT ![p].reviewers = RepoReplaceRollback(revs, r.uid)]
               /\ Done(r, Result(r, "internal", FALSE, NoPR))
          ELSE LET nr == RepoReplaceReviewer(revs, r.uid, r.newUID)
               IN /\ prs' = [prs EXCEPT ![p].reviewers = nr]
                  /\ Done(r, Result(r, "", TRUE,
                                    [prs[p] EXCEPT !.reviewers = nr,
                                       !.needMore = NeedMoreReviewers(Cardinality(nr))]))
    /\ UNCHANGED <<active, clock, jobsStarted>>

\* ------------------------------------------------------------ DeactivateTeam
\* where the nested loops over members, pull requests and reviewers resume;
\* when all three are exhausted DeactivateTeam returns nil
CascadeNext(r, rec) ==
    IF rec.revs # <<>> THEN Continue(r, [rec EXCEPT !.pc = "dt_rev"])
    ELSE IF rec.prq # <<>>
         THEN Continue(r, [rec EXCEPT !.pc = "dt_pr", !.pr = 0, !.author = 0])
    ELSE IF rec.members # <<>>
         THEN Continue(r, [rec EXCEPT !.pc = "dt_member", !.pr = 0, !.author = 0])
    ELSE Done(r, Result([rec EXCEPT !.pr = 0], "", TRUE, NoPR))

\* GetTeam and SetTeamActive(teamName, false)
Deactivate_Call(job) ==
    /\ LET t == job.team
           ms == SortedSeq(TeamMembers(t))
           na == RepoSetTeamActive(t, FALSE)
       IN IF ms = <<>>
          THEN /\ StartDone(Result(job, "ErrNotFound", FALSE, NoPR))
               /\ active' = active
          ELSE /\ active' = na
               /\ last' = last
               /\ run' = MarkDirty(na) (+)
                         SetToBag({[job EXCEPT !.pc = "dt_member", !.members = ms]})
               /\ PoolStarted(job.job)
    /\ UNCHANGED <<prs, clock>>

Deactivate_SetTeamActive ==
    /\ Begin
    /\ jobsStarted' = jobsStarted + 1
    /\ \E t \in Teams : Deactivate_Call([Job("deactivate_team", 0, 0) EXCEPT !.team = t])

Deactivate_Member(r) ==
    /\ r.pc = "dt_member"
    /\ LET m == Head(r.members)
       IN IF CtxIsDone(r) THEN Done(r, Result([r EXCEPT !.pr = 0], r.ctx, FALSE, NoPR))
          ELSE CascadeNext(r, [r EXCEPT !.members = Tail(r.members),
                                            !.prq = RepoGetPRsByReviewer(m)])
    /\ UNCHANGED <<active, prs, clock, jobsStarted>>

Deactivate_GetPR(r) ==
    /\ r.pc = "dt_pr"
    /\ LET p == Head(r.prq)
           rest == [r EXCEPT !.prq = Tail(r.prq)]
       IN IF CtxIsDone(r) THEN Done(r, Result([r EXCEPT !.pr = 0], r.ctx, FALSE, NoPR))
          ELSE IF CascadeSkips(prs[p].status) THEN CascadeNext(r, rest)
          ELSE CascadeNext(r, [rest EXCEPT !.pr = p, !.author = prs[p].author,
                                           !.revs = SortedSeq(prs[p].reviewers)])
    /\ UNCHANGED <<active, prs, clock, jobsStarted>>

Deactivate_Reviewer(r) ==
    /\ r.pc = "dt_rev"
    /\ LET u == Head(r.revs)
           rest == [r EXCEPT !.revs = Tail(r.revs)]
       IN IF CtxIsDone(r) \/ active[u] THEN CascadeNext(r, rest)
          ELSE Continue(r, [rest EXCEPT !.pc = "dt_cands", !.uid = u])
    /\ UNCHANGED <<active, prs, clock, jobsStarted>>

\* reassignReviewer: the candidates
ReassignReviewer_Candidates(r) ==
    /\ r.pc = "dt_cands"
    /\ IF CtxIsDone(r) THEN CascadeNext(r, [r EXCEPT !.uid = 0])
       ELSE Continue(r, [r EXCEPT !.pc = "dt_pick",
                           !.cands = RepoGetActiveTeamMembersExcept(
                                         CascadeTeam(r.team, r.author), 0)])
    /\ UNCHANGED <<active, prs, clock, jobsStarted>>

\* reassignReviewer: GetPR, the filter and the pick
ReassignReviewer_Pick(r) ==
    /\ r.pc = "dt_pick"
    /\ LET avail == CascadeAvail(r.cands, prs[r.pr].reviewers)
       IN IF CtxIsDone(r) \/ avail = {}
          THEN CascadeNext(r, [r EXCEPT !.cands = {}, !.uid = 0])
          ELSE \E n \in avail :
                  Continue(r, [r EXCEPT !.pc = "dt_replace", !.cands = {}, !.newUID = n])
    /\ UNCHANGED <<active, prs, clock, jobsStarted>>

ReassignReviewer_Replace(r) ==
    /\ r.pc = "dt_replace"
    /\ LET p == r.pr
           revs == prs[p].reviewers
       IN /\ prs' = IF CtxIsDone(r) \/ RepoReplaceConflict(revs, r.uid, r.newUID) THEN prs
                    ELSE [prs EXCEPT ![p].reviewers =
                              RepoReplaceReviewer(revs, r.uid, r.newUID)]
          /\ CascadeNext(r, [r EXCEPT !.uid = 0, !.newUID = 0])
    /\ UNCHANGED <<active, clock, jobsStarted>>

\* ------------------------------------------------------------ dispatcher
KnownKinds == {"create_pr", "merge_pr", "reassign_pr", "get_team",
               "set_user_active", "get_reviews", "deactivate_team"}

\* the jobs the callers submit to the dispatcher
PoolPayloads ==
    { [NoPayload EXCEPT !.typ = "merge_pr", !.pr = 1],
      [NoPayload EXCEPT !.typ = "merge_pr", !.pr = 1, !.ctx = "DeadlineExceeded"],
      [NoPayload EXCEPT !.typ = "merge_pr", !.ok = FALSE],
      [NoPayload EXCEPT !.typ = "reassign_pr", !.pr = 1, !.uid = 4],
      [NoPayload EXCEPT !.typ = "get_stats"] }

\* NewService: an empty queue, numWorkers workers in their select
PoolConstructed ==
    /\ queue = <<>>
    /\ chan = "open"
    /\ wpc = [w \in Workers |-> "select"]
    /\ wjob = [w \in Workers |-> NoJob]
    /\ wres = [w \in Workers |-> ""]
    /\ jpc = [j \in JobIds |-> "new"]
    /\ resp = [job |-> 0, err |-> ""]
    /\ sends = [j \in JobIds |-> 0]
    /\ pulls = [j \in JobIds |-> 0]
    /\ stopPc = "none"
    /\ hpc = [j \in JobIds |-> "serving"]

StoppedClosed_Never == FALSE

StoppedClosed == chan \in {"stopped", "closed"}
JobsClosed == chan = "closed"

\* select { case ch <- res: default: } on a RespCh of capacity 1: the send
\* goes through when the buffer is empty, which it is until the first
\* write and again once the caller has taken what was written
RespChMayBlock_Always(written) == TRUE

RespChMayBlock(written) == written > 0

\* a send that puts its value on a channel that cannot take it
TrySend_Overwrites(j, e) ==
    \/ /\ resp' = [job |-> j, err |-> e]
       /\ sends' = [sends EXCEPT ![j] = @ + 1]
    \/ /\ RespChMayBlock(sends[j])
       /\ resp' = [job |-> j, err |-> e]
       /\ UNCHANGED sends

TrySend(j, e) ==
    \/ /\ resp' = [job |-> j, err |-> e]
       /\ sends' = [sends EXCEPT ![j] = @ + 1]
    \/ /\ RespChMayBlock(sends[j])
       /\ UNCHANGED <<resp, sends>>

\* EnqueueJob returns once it has answered the stop signal
EnqueueAfterStopSignal_FallsThrough == "checked"

EnqueueAfterStopSignal == "rejected"

\* EnqueueJob, first select: the stop signal. The callers submit their jobs
\* one call at a time, in the order of the job ids.
Enqueue_Check(j) ==
    /\ jpc[j] = "new"
    /\ \A i \in JobIds : i < j => jpc[i] \notin {"new", "checked"}
    /\ IF StoppedClosed
       THEN /\ TrySend(j, "Canceled")
            /\ jpc' = [jpc EXCEPT ![j] = EnqueueAfterStopSignal]
       ELSE /\ jpc' = [jpc EXCEPT ![j] = "checked"]
            /\ UNCHANGED <<resp, sends>>
    /\ UNCHANGED <<queue, chan, wpc, wjob, wres, pulls, team, hpc, stopPc>>
    /\ UNCHANGED engineVars

QueueHasRoom_Always(q) == TRUE

QueueHasRoom(q) == Len(q) < jobQueueSize

\* an EnqueueJob that also writes a result for the job it has queued
Enqueue_Send_Acks(j) ==
    /\ jpc[j] = "checked"
    /\ IF JobsClosed
       THEN /\ jpc' = [jpc EXCEPT ![j] = "panicked"]
            /\ UNCHANGED <<queue, resp, sends>>
       ELSE IF QueueHasRoom(queue)
       THEN /\ queue' = Append(queue, j)
            /\ jpc' = [jpc EXCEPT ![j] = "queued"]
            /\ TrySend(j, "")
       ELSE /\ TrySend(j, "ErrJobQueueFull")
            /\ jpc' = [jpc EXCEPT ![j] = "rejected"]
            /\ UNCHANGED queue
    /\ UNCHANGED <<chan, wpc, wjob, wres, pulls, team, hpc, stopPc>>
    /\ UNCHANGED engineVars

\* EnqueueJob, second select: the send on s.jobs. A send on a channel that
\* StopWorkers has closed since the first select panics, full or not: the
\* call ends there, with the job neither queued nor answered.
Enqueue_Send(j) ==
    /\ jpc[j] = "checked"
    /\ IF JobsClosed
       THEN /\ jpc' = [jpc EXCEPT ![j] = "panicked"]
            /\ UNCHANGED <<queue, resp, sends>>
       ELSE IF QueueHasRoom(queue)
       THEN /\ queue' = Append(queue, j)
            /\ jpc' = [jpc EXCEPT ![j] = "queued"]
            /\ UNCHANGED <<resp, sends>>
       ELSE /\ TrySend(j, "ErrJobQueueFull")
            /\ jpc' = [jpc EXCEPT ![j] = "rejected"]
            /\ UNCHANGED queue
    /\ UNCHANGED <<chan, wpc, wjob, wres, pulls, team, hpc, stopPc>>
    /\ UNCHANGED engineVars

\* The workers run the same loop; the one that takes the next step out of
\* its select is taken to be the lowest of those waiting there.
Selecting(w) == wpc[w] = "select" /\ \A v \in Workers : v < w => wpc[v] # "select"

QueueAfterReceive_Peek(q) == q

QueueAfterReceive(q) == Tail(q)

\* workerLoop: case job, ok := <-s.jobs with ok true. A closed channel
\* still delivers what it buffers.
Worker_Receive(w) ==
    /\ Selecting(w)
    /\ queue # <<>>
    /\ \E pl \in PoolPayloads :
          wjob' = [wjob EXCEPT ![w] = [id |-> Head(queue), pl |-> pl]]
    /\ queue' = QueueAfterReceive(queue)
    /\ pulls' = [pulls EXCEPT ![Head(queue)] = @ + 1]
    /\ wpc' = [wpc EXCEPT ![w] = "handle"]
    /\ UNCHANGED <<chan, wres, jpc, resp, sends, stopPc, team, hpc>>
    /\ UNCHANGED engineVars

\* workerLoop: case <-s.stopped
Worker_StopSignal(w) ==
    /\ Selecting(w)
    /\ StoppedClosed
    /\ wpc' = [wpc EXCEPT ![w] = "exited"]
    /\ UNCHANGED <<queue, chan, wjob, wres, jpc, resp, sends, pulls, team, hpc, stopPc>>
    /\ UNCHANGED engineVars

\* workerLoop: case job, ok := <-s.jobs with ok false
Worker_JobsClosed(w) ==
    /\ Selecting(w)
    /\ JobsClosed /\ queue = <<>>
    /\ wpc' = [wpc EXCEPT ![w] = "exited"]
    /\ UNCHANGED <<queue, chan, wjob, wres, jpc, resp, sends, pulls, team, hpc, stopPc>>
    /\ UNCHANGED engineVars

\* handleJob returns without calling the service
HandleReturns(res) ==
    /\ StartDone(res)
    /\ UNCHANGED <<active, prs, clock>>

GetTeam_Call(job) ==
    /\ IF TeamMembers(job.team) = {}
       THEN StartDone(Result(job, "ErrNotFound", FALSE, NoPR))
       ELSE StartDone(Result(job, "", FALSE, NoPR))
    /\ UNCHANGED <<active, prs, clock>>

GetPRsByReviewer_Call(job) ==
    /\ StartDone(Result(job, "", FALSE, NoPR))
    /\ UNCHANGED <<active, prs, clock>>

CtxDone_Ignored(pl) == FALSE

CtxDone(pl) == pl.ctx # ""

PayloadOK_AssertionsOnly(pl) == pl.ok

PayloadOK(pl) == pl.typ \in KnownKinds /\ pl.ok

\* handleJob: the context, the switch on job.Type with the payload
\* assertions, and the service call up to its first repository call
HandleJob(j, pl) ==
    LET job == [Job(pl.typ, pl.pr, pl.uid) EXCEPT
                   !.team = pl.team, !.author = pl.author, !.job = j]
    IN IF CtxDone(pl) THEN HandleReturns(Result(job, pl.ctx, FALSE, NoPR))
       ELSE IF ~PayloadOK(pl)
            THEN HandleReturns(Result(job, "ErrUnknownJobType", FALSE, NoPR))
       ELSE IF pl.typ = "create_pr" THEN CreatePR_Call(job)
       ELSE IF pl.typ = "merge_pr" THEN MergePR_Call(job)
       ELSE IF pl.typ = "reassign_pr" THEN Reassign_Call(job)
       ELSE IF pl.typ = "get_team" THEN GetTeam_Call(job)
       ELSE IF pl.typ = "set_user_active" THEN SetUserActive_Call(job, pl.b)
       ELSE IF pl.typ = "get_reviews" THEN GetPRsByReviewer_Call(job)
       ELSE Deactivate_Call(job)

Worker_Handle(w) ==
    /\ wpc[w] = "handle"
    /\ HandleJob(wjob[w].id, wjob[w].pl)
    /\ UNCHANGED jobsStarted

\* workerLoop: the non-blocking send of res on job.RespCh, then the loop
Worker_Reply(w) ==
    /\ wpc[w] = "reply"
    /\ TrySend(wjob[w].id, wres[w])
    /\ wpc' = [wpc EXCEPT ![w] = "select"]
    /\ wjob' = [wjob EXCEPT ![w] = NoJob]
    /\ wres' = [wres EXCEPT ![w] = ""]
    /\ UNCHANGED <<queue, chan, jpc, pulls, team, hpc, stopPc>>
    /\ UNCHANGED engineVars

\* the service call a worker is in goes on with its next repository call
EngineStep(r) ==
    \/ CreatePR_Candidates(r)
    \/ CreatePR_Pick(r)
    \/ CreatePR_Insert(r)
    \/ CreatePR_Fetch(r)
    \/ MergePR_Update(r)
    \/ Reassign_Old(r)
    \/ Reassign_Candidates(r)
    \/ Reassign_Verify(r)
    \/ Reassign_Replace(r)
    \/ Deactivate_Member(r)
    \/ Deactivate_GetPR(r)
    \/ Deactivate_Reviewer(r)
    \/ ReassignReviewer_Candidates(r)
    \/ ReassignReviewer_Pick(r)
    \/ ReassignReviewer_Replace(r)

Worker_Service == \E r \in Running : EngineStep(r)

\* StopWorkers: close(s.stopped)
Stop_CloseStopped ==
    /\ stopPc = "none"
    /\ chan' = "stopped"
    /\ stopPc' = "closeJobs"
    /\ UNCHANGED <<queue, wpc, wjob, wres, jpc, resp, sends, pulls, team, hpc>>
    /\ UNCHANGED engineVars

\* StopWorkers: close(s.jobs)
Stop_CloseJobs ==
    /\ stopPc = "closeJobs"
    /\ chan' = "closed"
    /\ stopPc' = "wait"
    /\ UNCHANGED <<queue, wpc, wjob, wres, jpc, resp, sends, pulls, team, hpc>>
    /\ UNCHANGED engineVars

WaitGroupDone_Any == \E w \in Workers : wpc[w] = "exited"

\* s.wg.Wait(): every workerLoop has run its deferred wg.Done()
WaitGroupDone == \A w \in Workers : wpc[w] = "exited"

Stop_Wait ==
    /\ stopPc = "wait"
    /\ WaitGroupDone
    /\ stopPc' = "returned"
    /\ UNCHANGED <<queue, chan, wpc, wjob, wres, jpc, resp, sends, pulls, team, hpc>>
    /\ UNCHANGED engineVars

\* the EnqueueJob call of job j has returned to the handler
EnqueueReturned(j) == jpc[j] \in {"queued", "rejected"}

\* every step of the handlers leaves the dispatcher and the engine alone
HandlerFrame ==
    /\ UNCHANGED <<queue, chan, wpc, wjob, wres, jpc, resp, sends, pulls, stopPc, team>>
    /\ UNCHANGED engineVars

\* a waitJob that still takes the result after its context was done
Wait_Receive_AfterCancel(j) ==
    /\ hpc[j] \in {"serving", "canceled"}
    /\ EnqueueReturned(j)
    /\ sends[j] > 0
    /\ hpc' = [hpc EXCEPT ![j] = "answered"]
    /\ HandlerFrame

\* waitJob: case res := <-ch. The handler that submitted job j is in
\* waitJob once EnqueueJob has returned; the case is ready when the job's
\* RespCh holds a result, and the handler answers the request with it.
Wait_Receive(j) ==
    /\ hpc[j] = "serving"
    /\ EnqueueReturned(j)
    /\ sends[j] > 0
    /\ hpc' = [hpc EXCEPT ![j] = "answered"]
    /\ HandlerFrame

\* waitJob: case <-ctx.Done(). The request's context can be done at any
\* time; the handler answers 504 CANCELED and returns. When a result is
\* there as well, the select takes either case.
Wait_Cancel(j) ==
    /\ hpc[j] = "serving"
    /\ EnqueueReturned(j)
    /\ hpc' = [hpc EXCEPT ![j] = "canceled"]
    /\ HandlerFrame

\* The storage the service starts on: the users are there (AddTeam), the
\* first n of them active, and pull request 1 is either absent or as a
\* CreatePR by u1 run alone on this storage persists it when its random
\* picks fall on the candidates of lowest id.
InitReviewerSets(act) ==
    LET pool == {u \in TeamMembers(TeamOf(1)) : act[u] /\ u # 1}
        want == IF Cardinality(pool) < maxReviewers THEN Cardinality(pool) ELSE maxReviewers
    IN {S \in SUBSET pool : /\ Cardinality(S) = want
                            /\ \A u \in S, v \in pool \ S : u < v}

Init ==
    /\ team = [u \in Users |-> HomeTeam(u)]
    /\ \E n \in 0..NumUsers : active = [u \in Users |-> u <= n]
    /\ \/ /\ prs = [p \in PRIds |-> NoPR]
          /\ clock = 0
       \/ /\ \E S \in InitReviewerSets(active) :
                prs = [p \in PRIds |->
                         IF p = 1
                         THEN [status |-> "OPEN", author |-> 1, reviewers |-> S,
                               needMore |-> NeedMoreReviewers(Cardinality(S)),
                               createdAt |-> 1, mergedAt |-> 0]
                         ELSE NoPR]
          /\ clock = 1
    /\ run = EmptyBag
    /\ last = NoResult
    /\ jobsStarted = 0
    /\ PoolConstructed

Next ==
    \/ SetUserActive
    \/ CreatePR_Exists
    \/ MergePR_Get
    \/ Reassign_Get
    \/ Deactivate_SetTeamActive
    \/ \E r \in Running :
        \/ CreatePR_Candidates(r)
        \/ CreatePR_Pick(r)
        \/ CreatePR_Insert(r)
        \/ CreatePR_Fetch(r)
        \/ MergePR_Update(r)
        \/ Reassign_Old(r)
        \/ Reassign_Candidates(r)
        \/ Reassign_Verify(r)
        \/ Reassign_Replace(r)
        \/ Deactivate_Member(r)
        \/ Deactivate_GetPR(r)
        \/ Deactivate_Reviewer(r)
        \/ ReassignReviewer_Candidates(r)
        \/ ReassignReviewer_Pick(r)
        \/ ReassignReviewer_Replace(r)

Spec == Init /\ [][Next]_vars

\* The dispatcher: the jobs go through EnqueueJob, the queue and the
\* workers' loops, over a storage where every user is active and pull
\* request 1 is open.
PoolInit ==
    /\ Init
    /\ \A u \in Users : active[u]
    /\ prs[1].status = "OPEN"

PoolNext ==
    \/ \E j \in JobIds : Enqueue_Check(j)
    \/ \E j \in JobIds : Enqueue_Send(j)
    \/ \E w \in Workers : Worker_Receive(w)
    \/ \E w \in Workers : Worker_StopSignal(w)
    \/ \E w \in Workers : Worker_JobsClosed(w)
    \/ \E w \in Workers : Worker_Handle(w)
    \/ \E w \in Workers : Worker_Reply(w)
    \/ Worker_Service
    \/ Stop_CloseStopped
    \/ Stop_CloseJobs
    \/ Stop_Wait

PoolSpec == PoolInit /\ [][PoolNext]_vars

\* The dispatcher with callers that hand in reply channels that may not
\* take a value: the storage and the pool are those of PoolInit, and the
\* RespCh of every job has been written once before it is given to
\* EnqueueJob.
ReusedInit ==
    /\ team = [u \in Users |-> HomeTeam(u)]
    /\ active = [u \in Users |-> TRUE]
    /\ \E S \in InitReviewerSets(active) :
          prs = [p \in PRIds |->
                   IF p = 1
                   THEN [status |-> "OPEN", author |-> 1, reviewers |-> S,
                         needMore |-> NeedMoreReviewers(Cardinality(S)),
                         createdAt |-> 1, mergedAt |-> 0]
                   ELSE NoPR]
    /\ clock = 1
    /\ run = EmptyBag
    /\ last = NoResult
    /\ jobsStarted = 0
    /\ queue = <<>>
    /\ chan = "open"
    /\ wpc = [w \in Workers |-> "select"]
    /\ wjob = [w \in Workers |-> NoJob]
    /\ wres = [w \in Workers |-> ""]
    /\ jpc = [j \in JobIds |-> "new"]
    /\ resp = [job |-> 0, err |-> ""]
    /\ sends = [j \in JobIds |-> 1]
    /\ pulls = [j \in JobIds |-> 0]
    /\ stopPc = "none"
    /\ hpc = [j \in JobIds |-> "serving"]

ReusedSpec == ReusedInit /\ [][PoolNext]_vars

\* The dispatcher with the request handlers that wait for their jobs'
\* results, while StopWorkers is never called, over a storage that holds no
\* pull request: every service call of the jobs submitted returns from its
\* first repository call, inside Worker_Handle.
WaitInit ==
    /\ Init
    /\ \A u \in Users : active[u]
    /\ \A p \in PRIds : prs[p].status = "NONE"

WaitNext ==
    \/ \E j \in JobIds : Enqueue_Check(j)
    \/ \E j \in JobIds : Enqueue_Send(j)
    \/ \E w \in Workers : Worker_Receive(w)
    \/ \E w \in Workers : Worker_Handle(w)
    \/ \E w \in Workers : Worker_Reply(w)
    \/ \E j \in JobIds : Wait_Receive(j)
    \/ \E j \in JobIds : Wait_Cancel(j)

WaitSpec == WaitInit /\ [][WaitNext]_vars

\* The dispatcher while StopWorkers is never called.
PoolRunNext ==
    \/ \E j \in JobIds : Enqueue_Check(j)
    \/ \E j \in JobIds : Enqueue_Send(j)
    \/ \E w \in Workers : Worker_Receive(w)
    \/ \E w \in Workers : Worker_Handle(w)
    \/ \E w \in Workers : Worker_Reply(w)
    \/ Worker_Service

\* a step of a worker goroutine
WorkerStep ==
    \/ \E w \in Workers : Worker_Receive(w)
    \/ \E w \in Workers : Worker_Handle(w)
    \/ \E w \in Workers : Worker_Reply(w)
    \/ Worker_Service

\* The Go scheduler runs every runnable goroutine and the storage calls
\* return: while some worker can take a step, a worker takes one. (Fairness
\* to each worker separately is what the scheduler gives; this is weaker.)
PoolFairness == WF_vars(WorkerStep)

PoolRunSpec == PoolInit /\ [][PoolRunNext]_vars /\ PoolFairness

\* a worker goroutine leaves its loop
WorkerExit ==
    \/ \E w \in Workers : Worker_StopSignal(w)
    \/ \E w \in Workers : Worker_JobsClosed(w)

\* The dispatcher with its shutdown, under the scheduler's fairness: the
\* workers take the steps they can take, and so does StopWorkers once it
\* has been called. Whether StopWorkers is ever called is left open.
PoolStopFairness ==
    /\ WF_vars(WorkerStep)
    /\ WF_vars(WorkerExit)
    /\ WF_vars(Stop_CloseJobs \/ Stop_Wait)

PoolStopSpec == PoolInit /\ [][PoolNext]_vars /\ PoolStopFairness

\* The service with jobs whose context is canceled under way, over a storage
\* where every user is active and pull request 1 is open.
CancelInit ==
    /\ Init
    /\ \A u \in Users : active[u]
    /\ prs[1].status = "OPEN"

CancelNext ==
    \/ Next
    \/ \E r \in Running : Ctx_Cancel(r)

CancelSpec == CancelInit /\ [][CancelNext]_vars

\* The create_pr jobs, with every kind of pull request they may be given
\* and with contexts that are canceled under way, next to set_user_active
\* jobs, over a storage where every user is active and there is no pull
\* request yet.
CreateInit ==
    /\ Init
    /\ \A u \in Users : active[u]
    /\ \A p \in PRIds : prs[p].status = "NONE"

CreateNext ==
    \/ SetUserActive
    \/ CreatePR_Exists
    \/ CreatePR_Invalid
    \/ \E r \in Running :
        \/ CreatePR_Candidates(r)
        \/ CreatePR_Pick(r)
        \/ CreatePR_Insert(r)
        \/ CreatePR_Fetch(r)
        \/ CreatePR_Cancel(r)

CreateSpec == CreateInit /\ [][CreateNext]_vars

\* The service over a storage whose pull request 1 was created by u1 while
\* only u1 and u2 were active, so with one reviewer and its flag set, every
\* user having been activated since (SetUserActive).
GrownInit ==
    /\ team = [u \in Users |-> HomeTeam(u)]
    /\ active = [u \in Users |-> TRUE]
    /\ \E S \in InitReviewerSets([u \in Users |-> u <= 2]) :
          prs = [p \in PRIds |->
                   IF p = 1
                   THEN [status |-> "OPEN", author |-> 1, reviewers |-> S,
                         needMore |-> NeedMoreReviewers(Cardinality(S)),
                         createdAt |-> 1, mergedAt |-> 0]
                   ELSE NoPR]
    /\ clock = 1
    /\ run = EmptyBag
    /\ last = NoResult
    /\ jobsStarted = 0
    /\ PoolConstructed

GrownSpec == GrownInit /\ [][Next]_vars

\* The service over a storage where u1 created pull request 1 while every
\* user was in team 1 (reviewers u2 and u3), and an AddTeam of team 2 has
\* since listed the users from u3 on as its members, all active: the
\* upsert of InsertTeam moved them.
MovedInit ==
    /\ team = [u \in Users |-> IF u <= 2 THEN 1 ELSE 2]
    /\ active = [u \in Users |-> TRUE]
    /\ prs = [p \in PRIds |->
                IF p = 1
                THEN [status |-> "OPEN", author |-> 1, reviewers |-> {2, 3},
                      needMore |-> NeedMoreReviewers(2),
                      createdAt |-> 1, mergedAt |-> 0]
                ELSE NoPR]
    /\ clock = 1
    /\ run = EmptyBag
    /\ last = NoResult
    /\ jobsStarted = 0
    /\ PoolConstructed

MovedSpec == MovedInit /\ [][Next]_vars

TypeOK ==
    /\ team \in [Users -> Teams]
    /\ active \in [Users -> BOOLEAN]
    /\ IsABag(run) /\ BagCardinality(run) <= numWorkers
    /\ \A r \in Running : r.pc # "idle" /\ r.typ # "none"
    /\ \A p \in PRIds : prs[p].status \in {"NONE", "OPEN", "MERGED"}
    /\ jobsStarted \in 0..MaxJobs
    /\ queue \in Seq(JobIds) /\ Len(queue) <= jobQueueSize
    /\ chan \in {"open", "stopped", "closed"}
    /\ wpc \in [Workers -> {"select", "handle", "busy", "reply", "exited"}]
    /\ \A w \in Workers : wjob[w].id \in JobIds \cup {0}
    /\ \A w \in Workers : wpc[w] \in {"select", "exited"} <=> wjob[w] = NoJob
    /\ \A w \in Workers : wres[w] # "" => wpc[w] = "reply"
    /\ jpc \in [JobIds -> {"new", "checked", "queued", "rejected", "panicked"}]
    /\ resp.job \in JobIds \cup {0}
    /\ sends \in [JobIds -> Nat]
    /\ pulls \in [JobIds -> Nat]
    /\ hpc \in [JobIds -> {"serving", "answered", "canceled"}]
    /\ stopPc \in {"none", "closeJobs", "wait", "returned"}
    /\ \A r \in Running : r.job # 0 =>
          \E w \in Workers : wpc[w] = "busy" /\ wjob[w].id = r.job

\* ================================================================ claims
\* a job of type t was received and its call returned on its first step
StartedAndReturned(t) ==
    /\ jobsStarted' = jobsStarted + 1
    /\ run' = run
    /\ last'.typ = t

\* the call r stops being at the point it was: it took this step
Leaves(r) == CopiesIn(r, run') < CopiesIn(r, run)

\* the call x is where this step put it
Enters(x) == CopiesIn(x, run') > CopiesIn(x, run)

\* a job of type t was received and its call x goes on
StartedAndContinues(x, t) ==
    /\ jobsStarted' = jobsStarted + 1
    /\ Enters(x)
    /\ x.typ = t

\* the call r of type t returns in this step
Returns(r, t) ==
    /\ r.typ = t
    /\ Leaves(r)
    /\ BagCardinality(run') < BagCardinality(run)

\* C1: every pull request in storage has at most 2 assigned reviewers, under
\* any interleaving of the jobs.
C1_AtMostTwoReviewers ==
    \A p \in PRIds : Cardinality(prs[p].reviewers) <= maxReviewers

C3_MergeFreeze ==
    [][\A p \in PRIds :
          prs[p].status = "MERGED" => prs'[p].reviewers = prs[p].reviewers]_vars

\* C4: a Reassign that starts on a MERGED pull request fails with ErrPRMerged
\* on its first read, whatever the old reviewer is, and leaves storage as it was.
C4_ReassignAfterMerge ==
    [][/\ \A x \in BagToSet(run') :
             StartedAndContinues(x, "reassign_pr") => prs[x.pr].status # "MERGED"
       /\ (StartedAndReturned("reassign_pr") /\ prs[last'.pr].status = "MERGED")
          => /\ last'.err = "ErrPRMerged"
             /\ ~last'.wrote
             /\ prs' = prs /\ active' = active]_vars

C4_Witness ==
    /\ last.typ = "reassign_pr" /\ last.err = "ErrPRMerged"
    /\ prs[last.pr].status = "MERGED"
    /\ last.uid \in prs[last.pr].reviewers

\* C5: a MergePR on a pull request that is already MERGED succeeds, writes
\* nothing, and returns the stored record: status, merge timestamp and
\* reviewers stay those the first merge left.
C5_MergeIdempotent ==
    [][/\ \A x \in BagToSet(run') :
             StartedAndContinues(x, "merge_pr") => prs[x.pr].status = "OPEN"
       /\ (StartedAndReturned("merge_pr") /\ prs[last'.pr].status = "MERGED")
          => /\ last'.err = ""
             /\ ~last'.wrote
             /\ last'.ret = prs[last'.pr]
             /\ prs' = prs /\ clock' = clock]_vars

C5_Witness ==
    /\ last.typ = "merge_pr" /\ last.err = "" /\ ~last.wrote
    /\ last.ret.status = "MERGED" /\ last.ret.mergedAt > 0
    /\ last.ret = prs[last.pr]

\* C6: the pull request a successful CreatePR returns has at most 2
\* reviewers, none of them the author, and needsMoreReviewers exactly when
\* it has fewer than 2.
C6_CreateResult ==
    (last.typ = "create_pr" /\ last.err = "")
    => /\ Cardinality(last.ret.reviewers) <= maxReviewers
       /\ last.ret.author \notin last.ret.reviewers
       /\ last.ret.needMore <=> (Cardinality(last.ret.reviewers) < maxReviewers)

\* C7: when user activity did not change since CreatePR fetched its
\* candidates, the reviewers it persists are min(2, k) of the k active
\* members of the author's team other than the author, and the stored
\* needsMoreReviewers is true exactly when k < 2.
ActiveTeammates(a) == {u \in Users : TeamOf(u) = TeamOf(a) /\ active[u] /\ u # a}

C7_CreateAssignsMin2K ==
    \A r \in Running :
        (r.typ = "create_pr" /\ r.pc = "cr_fetch" /\ ~r.dirty)
        => LET K == ActiveTeammates(r.author)
               k == Cardinality(K)
           IN /\ r.selected \subseteq K
              /\ Cardinality(r.selected) = (IF k < 2 THEN k ELSE 2)
              /\ prs[r.pr].needMore <=> (k < 2)

C7_Witness ==
    \E r \in Running :
        /\ r.typ = "create_pr" /\ r.pc = "cr_fetch" /\ ~r.dirty
        /\ Cardinality(ActiveTeammates(r.author)) = 1
        /\ r.selected = ActiveTeammates(r.author)
        /\ prs[r.pr].reviewers = r.selected
        /\ prs[r.pr].needMore

SoleCandidates(p, old, seen) ==
    {u \in Users : /\ TeamOf(u) = TeamOf(old) /\ active[u]
                   /\ u \notin ({prs[p].author, old} \cup prs[p].reviewers \cup seen)}

C9_ReassignPicksSoleCandidate ==
    [][\A r \in Running :
          (/\ r.pc = "re_cands" /\ Leaves(r)
           /\ prs[r.pr].status = "OPEN"
           /\ Cardinality(SoleCandidates(r.pr, r.uid, r.assigned)) = 1)
          => \E x \in BagToSet(run') :
                /\ Enters(x) /\ x.pc = "re_verify"
                /\ x.newUID \in SoleCandidates(r.pr, r.uid, r.assigned)]_vars

\* C10: when DeactivateTeam completes, no OPEN pull request is left with an
\* inactive member of that team as its only recorded reviewer: the reviewer
\* was replaced by an active user or is no longer recorded.
C10_NoInactiveSoleReviewer ==
    [][\A r \in Running :
          (Returns(r, "deactivate_team") /\ last'.err = "")
          => \A p \in PRIds :
                (/\ prs'[p].status = "OPEN"
                 /\ Cardinality(prs'[p].reviewers) = 1
                 /\ prs'[p].reviewers \subseteq TeamMembers(r.team))
                => \A u \in prs'[p].reviewers : active'[u]]_vars

\* ----------------------------------------------------- dispatcher claims
\* the EnqueueJob call for job j returns in this step
EnqueueReturns(j) ==
    /\ jpc[j] \in {"new", "checked"}
    /\ jpc'[j] \notin {"new", "checked"}

\* the step rejects job j with error e: nothing is queued and e is what the
\* job's reply channel receives
RejectedWith(j, e) ==
    /\ jpc'[j] = "rejected"
    /\ queue' = queue
    /\ resp' = [job |-> j, err |-> e]
    /\ sends'[j] = sends[j] + 1

QueueFull == Len(queue) = jobQueueSize

\* C11, as stated: an EnqueueJob call that returns while the queue holds
\* its full capacity has not queued the job and has written ErrJobQueueFull
\* on the job's reply channel.
C11_FullQueueAlways ==
    [][\A j \in JobIds :
          QueueFull /\ EnqueueReturns(j) => RejectedWith(j, "ErrJobQueueFull")]_vars

\* C11, with the condition it leaves out: while StopWorkers has not been
\* called, an EnqueueJob call that finds the queue at its full capacity is
\* never blocked, does not queue the job and writes ErrJobQueueFull on the
\* job's reply channel.
C11_FullQueueWhileRunning ==
    /\ [](\A j \in JobIds : jpc[j] = "checked" => ENABLED Enqueue_Send(j))
    /\ [][\A j \in JobIds :
             stopPc = "none" /\ QueueFull /\ EnqueueReturns(j)
                => RejectedWith(j, "ErrJobQueueFull")]_vars

C11_Witness ==
    /\ stopPc = "none"
    /\ QueueFull
    /\ \E j \in JobIds :
          /\ jpc[j] = "rejected"
          /\ resp = [job |-> j, err |-> "ErrJobQueueFull"]
          /\ j \notin {queue[i] : i \in 1..Len(queue)}

\* some worker has job j in hand
Executing(j) == \E w \in Workers : wjob[w].id = j

\* C12: an EnqueueJob call that starts after StopWorkers has returned ends
\* in its first select: the job is not queued and Canceled is written on
\* its reply channel; a job rejected by EnqueueJob is never in the queue
\* and no worker ever pulls or executes it.
C12_CanceledAfterShutdown ==
    /\ [][\A j \in JobIds :
             stopPc = "returned" /\ jpc[j] = "new" /\ jpc'[j] # "new"
                => RejectedWith(j, "Canceled")]_vars
    /\ [](\A j \in JobIds :
             jpc[j] = "rejected" =>
                /\ pulls[j] = 0
                /\ ~Executing(j)
                /\ \A i \in 1..Len(queue) : queue[i] # j)

\* job 1 was served before the shutdown, the last job was submitted to the
\* stopped service
C12_Witness ==
    /\ stopPc = "returned"
    /\ pulls[1] = 1 /\ sends[1] = 1
    /\ jpc[NumJobs] = "rejected"
    /\ resp = [job |-> NumJobs, err |-> "Canceled"]
    /\ pulls[NumJobs] = 0

\* the workers that have job j in hand
Holders(j) == {w \in Workers : wjob[w].id = j}

\* C13: a job accepted by EnqueueJob is received from the queue at most
\* once, so at most one worker ever has it in hand, and a worker enters
\* handleJob only with the job it has just received, for the first time.
C13_AtMostOneWorkerOnce ==
    /\ [](\A j \in JobIds :
             /\ pulls[j] <= 1
             /\ Cardinality(Holders(j)) <= 1
             /\ (Holders(j) # {} => jpc[j] = "queued" /\ pulls[j] = 1))
    /\ [][\A w \in Workers :
             wpc[w] # "handle" /\ wpc'[w] = "handle"
                => /\ wpc[w] = "select"
                   /\ pulls[wjob'[w].id] = 0
                   /\ pulls'[wjob'[w].id] = 1]_vars

\* the three workers have three different jobs in hand at the same time
C13_Witness ==
    /\ \A w \in Workers : wjob[w].id # 0
    /\ \A v, w \in Workers : v # w => wjob[v].id # wjob[w].id

\* C14: over a job's whole lifetime at most one JobResult is written on its
\* reply channel: by EnqueueJob when it rejects the job, or by the worker
\* that executed it, never both and never twice.
C14_AtMostOneResult ==
    \A j \in JobIds :
       /\ sends[j] <= 1
       /\ (sends[j] = 1 /\ pulls[j] = 0 => jpc[j] = "rejected")
       /\ (sends[j] = 1 /\ pulls[j] = 1 => jpc[j] = "queued")

\* one job answered by EnqueueJob, another by the worker that executed it
C14_Witness ==
    \E i, j \in JobIds :
       /\ jpc[i] = "rejected" /\ sends[i] = 1
       /\ jpc[j] = "queued" /\ pulls[j] = 1 /\ sends[j] = 1 /\ ~Executing(j)

\* C15: while StopWorkers is never called and the workers are scheduled
\* fairly, every job EnqueueJob has put in the queue is eventually pulled by
\* a worker and its JobResult is eventually written on its reply channel.
C15_AcceptedEventuallyAnswered ==
    \A j \in JobIds : (jpc[j] = "queued") ~> (pulls[j] = 1 /\ sends[j] = 1)

\* every job was accepted and answered by a worker
C15_Witness ==
    /\ stopPc = "none"
    /\ \A j \in JobIds : jpc[j] = "queued" /\ pulls[j] = 1 /\ sends[j] = 1
    /\ \A w \in Workers : wpc[w] = "select"

\* worker w leaves its loop in this step
Exits(w) == wpc[w] # "exited" /\ wpc'[w] = "exited"

\* C16: StopWorkers has returned only when all the workers have exited; a
\* worker exits only from its select, with no job in hand, so a job it had
\* pulled has been handled and its reply attempted before it exits, and
\* once StopWorkers has returned no pulled job is left unfinished.
C16_StopWaitsForWorkers ==
    /\ [](stopPc = "returned" =>
             /\ \A w \in Workers : wpc[w] = "exited"
             /\ \A j \in JobIds : pulls[j] = 1 => sends[j] = 1 /\ ~Executing(j)
             /\ \A r \in Running : r.job = 0)
    /\ [](\A w \in Workers : wpc[w] = "exited" => wjob[w] = NoJob /\ wres[w] = "")
    /\ [][\A w \in Workers :
             Exits(w) => wpc[w] = "select" /\ wjob[w] = NoJob /\ StoppedClosed]_vars
    /\ [][\A w \in Workers :
             wpc[w] \in {"handle", "busy"} /\ wpc'[w] # wpc[w]
                => wpc'[w] \in {"busy", "reply"}]_vars
    /\ [][\A w \in Workers :
             wpc[w] = "reply" /\ wpc'[w] # "reply"
                => wpc'[w] = "select" /\ sends'[wjob[w].id] = 1]_vars

\* StopWorkers is in s.wg.Wait(), two workers have exited and the third is
\* still in the service call of the job it pulled
C16_Witness ==
    /\ stopPc = "wait"
    /\ \E w \in Workers :
          /\ wpc[w] = "busy"
          /\ \A v \in Workers \ {w} : wpc[v] = "exited"

\* worker w comes out of the first step of handleJob
Handles(w) == wpc[w] = "handle" /\ wpc'[w] # "handle"

\* C17: when the context of the job a worker has pulled is done, handleJob
\* returns at once with the context's error: no service call is started,
\* the storage is unchanged, and that error is what the worker then writes
\* on the reply channel.
C17_CtxDoneNoWork ==
    /\ [][\A w \in Workers :
             Handles(w) /\ wjob[w].pl.ctx # "" =>
                /\ wpc'[w] = "reply"
                /\ wres'[w] = wjob[w].pl.ctx
                /\ last' = [NoResult EXCEPT !.typ = wjob[w].pl.typ,
                                            !.err = wjob[w].pl.ctx,
                                            !.pr = wjob[w].pl.pr,
                                            !.job = wjob[w].id]
                /\ UNCHANGED <<active, prs, clock, run>>]_vars
    /\ [][\A w \in Workers :
             wpc[w] = "reply" /\ wpc'[w] # "reply" /\ wres[w] = "DeadlineExceeded"
                => resp' = [job |-> wjob[w].id, err |-> "DeadlineExceeded"]]_vars

\* the merge_pr job whose deadline had passed was answered with the
\* context's error and pull request 1 is still open
C17_Witness ==
    /\ resp.job # 0
    /\ resp.err = "DeadlineExceeded"
    /\ prs[1].status = "OPEN"
    /\ run = EmptyBag

C19_AssignedAreActive ==
    [][\A r \in Running :
          r.typ \in {"create_pr", "reassign_pr"} /\ Leaves(r) =>
             \A p \in PRIds : \A u \in prs'[p].reviewers \ prs[p].reviewers :
                active[u]]_vars

C21_StatusOneWay ==
    [][\A p \in PRIds :
          /\ (prs[p].status = "NONE" /\ prs'[p].status # "NONE"
                 => prs'[p].status = "OPEN")
          /\ (prs[p].status = "OPEN" => prs'[p].status \in {"OPEN", "MERGED"})
          /\ (prs[p].status = "MERGED" => prs'[p].status = "MERGED")]_vars

\* two MergePR jobs on pull request 1 both read it OPEN; the first has
\* merged it and the second has written its own UPDATE on top
C21_Witness ==
    /\ prs[1].status = "MERGED"
    /\ prs[1].mergedAt > prs[1].createdAt + 1
    /\ last.typ = "merge_pr" /\ last.wrote
    /\ jobsStarted = 2

\* C22: a job that EnqueueJob has put in the queue while StopWorkers had
\* not been called eventually has a JobResult written on its reply
\* channel, also when StopWorkers is called afterwards.
C22_AcceptedBeforeStopAnswered ==
    \A j \in JobIds : (jpc[j] = "queued" /\ stopPc = "none") ~> (sends[j] = 1)

\* the active candidates Reassign would find for old on pull request p now
ReassignPool(p, old) ==
    {c \in TeamMembers(TeamOf(old)) : active[c] /\ c # old /\ c \notin prs[p].reviewers}

\* C23: Reassign checks in this order: pull request missing, ErrNotFound;
\* else MERGED, ErrPRMerged, whatever oldReviewer is; else oldReviewer not
\* among the reviewers, ErrNotAssigned; else oldReviewer inactive,
\* ErrUserInactive, whatever the candidates are; else no candidate,
\* ErrNoCandidate. Each check is made on what storage holds when the call
\* reaches it.
C23_ReassignErrorOrder ==
    /\ [][jobsStarted' = jobsStarted + 1 /\ last'.typ = "reassign_pr" /\ run' = run
             => LET p == last'.pr
                    u == last'.uid
                IN last'.err =
                      IF prs[p].status = "NONE" THEN "ErrNotFound"
                      ELSE IF prs[p].status = "MERGED" THEN "ErrPRMerged"
                      ELSE "ErrNotAssigned"]_vars
    /\ [][\A x \in BagToSet(run') :
             StartedAndContinues(x, "reassign_pr")
                => /\ prs[x.pr].status = "OPEN"
                   /\ x.uid \in prs[x.pr].reviewers
                   /\ x.pc = "re_old"]_vars
    /\ [][\A r \in Running :
             r.typ = "reassign_pr" /\ r.pc = "re_old" /\ Leaves(r)
                => IF ~active[r.uid]
                   THEN Returns(r, "reassign_pr") /\ last'.err = "ErrUserInactive"
                   ELSE \E x \in BagToSet(run') : Enters(x) /\ x.pc = "re_cands"]_vars
    /\ [][\A r \in Running :
             r.typ = "reassign_pr" /\ r.pc = "re_cands" /\ Leaves(r)
                => IF {c \in TeamMembers(TeamOf(r.uid)) :
                          active[c] /\ c # r.uid /\ c \notin r.assigned} = {}
                   THEN Returns(r, "reassign_pr") /\ last'.err = "ErrNoCandidate"
                   ELSE \E x \in BagToSet(run') : Enters(x) /\ x.pc = "re_verify"]_vars

\* Reassign on a merged pull request for a user who is neither assigned to
\* it nor active has answered ErrPRMerged
C23_Witness ==
    /\ last.typ = "reassign_pr"
    /\ last.err = "ErrPRMerged"
    /\ last.uid \notin prs[last.pr].reviewers
    /\ ~active[last.uid]

C25_SinglePick ==
    [][\A r \in Running :
          r.typ = "reassign_pr" /\ r.pc = "re_verify" /\ Leaves(r)
             => IF ~active[r.newUID]
                THEN /\ Returns(r, "reassign_pr")
                     /\ last'.err = "ErrNoCandidate"
                     /\ last'.newUID = r.newUID
                     /\ prs' = prs /\ active' = active
                ELSE Enters([r EXCEPT !.pc = "re_replace"])]_vars

\* Reassign has returned ErrNoCandidate for a picked candidate that is
\* inactive, while the reviewer to replace is active and assigned and
\* another active candidate is there
C25_Witness ==
    /\ last.typ = "reassign_pr"
    /\ last.err = "ErrNoCandidate"
    /\ last.newUID # 0
    /\ ~active[last.newUID]
    /\ active[last.uid]
    /\ prs[last.pr].status = "OPEN"
    /\ last.uid \in prs[last.pr].reviewers
    /\ ReassignPool(last.pr, last.uid) # {}

\* C26: when a Reassign(pr, old) returns success and the reviewers of pr
\* in storage are still those the call read (no other job has touched pr),
\* the stored reviewer set becomes the old one without old and with the
\* returned new reviewer, who was not in it: the count is the same, the
\* other reviewers and the rest of the pull request are unchanged.
C26_ReassignSwapsExactlyOne ==
    [][\A r \in Running :
          /\ Returns(r, "reassign_pr")
          /\ last'.err = ""
          /\ prs[r.pr].reviewers = r.assigned
          => LET p == r.pr
                 before == prs[p].reviewers
                 after == prs'[p].reviewers
                 new == last'.newUID
             IN /\ last'.uid = r.uid
                /\ r.uid \in before
                /\ new \notin before
                /\ after = (before \ {r.uid}) \cup {new}
                /\ Cardinality(after) = Cardinality(before)
                /\ last'.ret.reviewers = after
                /\ prs' = [prs EXCEPT ![p].reviewers = after]]_vars

\* a Reassign has returned success: the pull request holds the new reviewer
\* it returned and no longer holds the old one
C26_Witness ==
    /\ last.typ = "reassign_pr"
    /\ last.err = ""
    /\ last.newUID \in prs[last.pr].reviewers
    /\ last.uid \notin prs[last.pr].reviewers
    /\ Cardinality(prs[last.pr].reviewers) = maxReviewers

\* C27: every stored pull request has its needsMoreReviewers flag true
\* exactly when it has fewer than maxReviewers stored reviewers, and the
\* pull request a successful Reassign returned carries the flag that
\* storage holds.
C27_FlagMatchesCount ==
    /\ \A p \in PRIds :
          prs[p].status # "NONE"
             => (prs[p].needMore <=> Cardinality(prs[p].reviewers) < maxReviewers)
    /\ last.typ = "reassign_pr" /\ last.err = ""
          => (last.ret.needMore <=> prs[last.pr].needMore)

\* C28: a DeactivateTeam whose context has been canceled returns the
\* context's error at its next check, the one before a member or the one
\* before a pull request, and from the cancellation on it changes nothing
\* in storage: the active flags it cleared stay cleared and the reviewer
\* replacements it committed stay.
C28_CanceledDeactivateStops ==
    /\ [][\A r \in Running :
             /\ r.typ = "deactivate_team"
             /\ r.ctx # ""
             /\ r.pc \in {"dt_member", "dt_pr"}
             /\ Leaves(r)
             => /\ Returns(r, "deactivate_team")
                /\ last'.err = r.ctx]_vars
    /\ [][\A r \in Running :
             r.typ = "deactivate_team" /\ r.ctx # "" /\ Leaves(r)
                => prs' = prs /\ active' = active]_vars

\* a DeactivateTeam has returned the context's error after it had replaced
\* a reviewer of pull request 1 by a user activated meanwhile: the
\* replacement is in storage, active, and a reviewer it did not replace is
\* still there, inactive
C28_Witness ==
    /\ last.typ = "deactivate_team"
    /\ last.err = "Canceled"
    /\ prs[1].reviewers \notin InitReviewerSets([u \in Users |-> TRUE])
    /\ \E u \in prs[1].reviewers : active[u]
    /\ \E v \in prs[1].reviewers : ~active[v]
    /\ ~active[1]

\* C29: DeactivateTeam never takes up a pull request that it reads as
\* MERGED, and it writes the reviewers of no pull request but the one it
\* has taken up, at its ReplaceReviewer. A pull request that was MERGED
\* when the call started stays MERGED, so its reviewer set is never
\* written by the call, whoever its reviewers are.
C29_MergedUntouched ==
    /\ [][\A r \in Running :
             /\ r.typ = "deactivate_team"
             /\ r.pc = "dt_pr"
             /\ Leaves(r)
             /\ prs[Head(r.prq)].status = "MERGED"
             => \A x \in BagToSet(run') : Enters(x) => x.pr # Head(r.prq)]_vars
    /\ [][\A r \in Running :
             r.typ = "deactivate_team" /\ Leaves(r)
                => \A p \in PRIds :
                      (r.pc # "dt_replace" \/ r.pr # p) => prs'[p] = prs[p]]_vars

\* a DeactivateTeam has run to completion over a MERGED pull request that
\* still has a reviewer of the deactivated team
C29_Witness ==
    /\ last.typ = "deactivate_team"
    /\ last.err = ""
    /\ prs[1].status = "MERGED"
    /\ \E v \in prs[1].reviewers : ~active[v]
    /\ run = EmptyBag

\* C30: whenever a DeactivateTeam call writes a replacement reviewer for a
\* pull request, the user it adds was not assigned to that pull request,
\* is active, and is a member of the team of the pull request's author,
\* whichever team is being deactivated.
C30_ReplacementFromAuthorsTeam ==
    [][\A r \in Running :
          r.typ = "deactivate_team" /\ Leaves(r) /\ prs' # prs
             => LET p == r.pr
                IN /\ prs'[p].reviewers \ prs[p].reviewers = {r.newUID}
                   /\ active[r.newUID]
                   /\ TeamOf(r.newUID) = TeamOf(prs[p].author)]_vars

\* C31: of the create_pr jobs that carry one pull-request id, the one whose
\* insert goes through stores the reviewers it selected, and every other
\* one returns ErrPRExists and leaves the stored pull request as it is,
\* whether it finds the pull request at its first check or only at its
\* own insert.
C31_DuplicateCreateExists ==
    /\ [][\A r \in Running :
             r.typ = "create_pr" /\ r.pc = "cr_insert" /\ Leaves(r) /\ active' = active
                => IF prs[r.pr].status = "NONE"
                   THEN /\ prs'[r.pr].reviewers = r.selected
                        /\ prs'[r.pr].status = "OPEN"
                        /\ ~Returns(r, "create_pr")
                   ELSE /\ Returns(r, "create_pr")
                        /\ last'.err = "ErrPRExists"
                        /\ prs' = prs]_vars
    /\ [][jobsStarted' = jobsStarted + 1 /\ last'.typ = "create_pr" /\ run' = run
             => last'.err = "ErrPRExists" /\ prs' = prs]_vars

\* the errors of validatePullRequest
ValidationErrors ==
    {"pull_request_id required", "pull_request_name required", "author_id required"}

\* C32: a CreatePR that returns an error of validatePullRequest,
\* ErrPRExists or ErrNotFound has written nothing: the step with which it
\* returns, and every step it took before, leave the pull requests in
\* storage as they were.
C32_FailedCreatePersistsNothing ==
    /\ [][/\ jobsStarted' = jobsStarted + 1
          /\ \/ last'.typ = "create_pr" /\ run' = run
             \/ \E x \in BagToSet(run') : StartedAndContinues(x, "create_pr")
          => /\ prs' = prs
             /\ run' = run => last'.err \in ValidationErrors \cup {"ErrPRExists"}]_vars
    /\ [][\A r \in Running :
             /\ r.typ = "create_pr"
             /\ r.pc \in {"cr_cands", "cr_pick"}
             /\ Leaves(r)
             => prs' = prs]_vars
    /\ [][\A r \in Running :
             Returns(r, "create_pr") /\ last'.err = "ErrNotFound"
                => r.pc = "cr_cands" /\ prs' = prs]_vars

\* a CreatePR for an author who is not in users has returned ErrNotFound
\* and its pull request is not in storage
C32_Witness ==
    /\ last.typ = "create_pr"
    /\ last.err = "ErrNotFound"
    /\ prs[last.pr].status = "NONE"
    /\ run = EmptyBag

\* C33: ErrNotFound is returned only when storage reported not found: by
\* MergePR and Reassign at their first call when the pull request is not
\* there, by CreatePR when the author is not in users, by Reassign when
\* the reviewer is not in users. A storage call that fails for another
\* reason, such as a done context, is not returned as ErrNotFound.
C33_NotFoundOnlyWhenMissing ==
    /\ [][/\ jobsStarted' = jobsStarted + 1
          /\ run' = run
          /\ last'.typ \in {"merge_pr", "reassign_pr"}
          /\ last'.err = "ErrNotFound"
          => ~RepoGetPRFound(last'.pr)]_vars
    /\ [][\A r \in Running :
             /\ r.typ \in {"create_pr", "reassign_pr"}
             /\ Returns(r, r.typ)
             /\ last'.err = "ErrNotFound"
             => IF r.typ = "create_pr" THEN ~RepoGetUserTeamFound(r.author)
                ELSE r.uid \notin Users]_vars

\* C34: a CreatePR whose context is canceled while it is in its selection
\* loop returns the context's error at its next iteration; one canceled
\* during its last iteration returns it at the insert; either way the
\* pull requests in storage are unchanged and the call's pull request is
\* not inserted by it.
C34_CanceledCreateStops ==
    [][\A r \in Running :
          /\ r.typ = "create_pr"
          /\ r.ctx # ""
          /\ r.pc \in {"cr_pick", "cr_insert"}
          /\ Leaves(r)
          /\ active' = active
          => /\ Returns(r, "create_pr")
             /\ last'.err = r.ctx
             /\ prs' = prs]_vars

\* the context of a CreatePR is canceled while the call is in its loop
\* with one reviewer selected and candidates left, and its pull request is
\* not in storage
C34_Witness ==
    \E r \in Running :
       /\ r.typ = "create_pr"
       /\ r.pc = "cr_pick"
       /\ r.ctx = "Canceled"
       /\ Cardinality(r.selected) = 1
       /\ r.cands # {}
       /\ prs[r.pr].status = "NONE"

\* C39: while CreatePR is in its selection loop it has fewer than
\* maxReviewers selected and a candidate left; an iteration of a call whose
\* context is not canceled takes exactly
\* one candidate out of the pool and selects at most that one; the loop is
\* left when maxReviewers are selected or the pool is empty. The pool
\* shrinks by one each time, so the iterations are at most the candidates
\* fetched.
C39_LoopShrinksPool ==
    /\ [](\A r \in Running :
             r.typ = "create_pr" /\ r.pc = "cr_pick"
                => Cardinality(r.selected) < maxReviewers /\ r.cands # {})
    /\ [][\A r \in Running :
             /\ r.typ = "create_pr"
             /\ r.pc = "cr_pick"
             /\ r.ctx = ""
             /\ Leaves(r)
             /\ active' = active
             /\ \A x \in BagToSet(run') : Enters(x) => x.ctx = ""
             => \E x \in BagToSet(run') :
                   /\ Enters(x)
                   /\ r.selected \subseteq x.selected
                   /\ Cardinality(x.selected \ r.selected) <= 1
                   /\ x.selected \ r.selected \subseteq r.cands
                   /\ IF x.pc = "cr_pick"
                      THEN /\ x.cands \subseteq r.cands
                           /\ Cardinality(x.cands) = Cardinality(r.cands) - 1
                           /\ x.selected \cap x.cands = {}
                      ELSE /\ x.pc = "cr_insert"
                           /\ \/ Cardinality(x.selected) = maxReviewers
                              \/ Cardinality(r.cands) = 1]_vars

\* a CreatePR is in its loop after an iteration that found its candidate
\* inactive: nothing selected, candidates left
C39_Witness ==
    \E r \in Running :
       /\ r.typ = "create_pr"
       /\ r.pc = "cr_pick"
       /\ r.selected = {}
       /\ \E u \in Users : u # r.author /\ ~active[u] /\ u \notin r.cands
       /\ Cardinality(r.cands) = NumUsers - 2

\* C37: no EnqueueJob call sends on the jobs queue after StopWorkers has
\* closed it: the call of every job ends with the job queued or rejected,
\* never in the panic of a send on a closed channel, and a job is put in
\* the queue only while the queue is not closed.
C37_NoSendOnClosedQueue ==
    /\ [](\A j \in JobIds : jpc[j] # "panicked")
    /\ [][\A j \in JobIds :
             jpc[j] = "checked" /\ jpc'[j] # "checked" => ~JobsClosed]_vars

\* C38: when a worker comes to the non-blocking send of a job's result,
\* nothing has been written on the job's reply channel yet, and the send
\* goes through: the channel then holds the worker's result, the first and
\* only one written for the job. The branch that drops the result is never
\* taken.
C38_WorkerSendSucceeds ==
    /\ [](\A w \in Workers : wpc[w] = "reply" => sends[wjob[w].id] = 0)
    /\ [][\A w \in Workers :
             wpc[w] = "reply" /\ wpc'[w] # "reply"
                => /\ sends'[wjob[w].id] = 1
                   /\ resp' = [job |-> wjob[w].id, err |-> wres[w]]]_vars

\* the workers have answered two jobs, the later one with an error of
\* handleJob
C38_Witness ==
    \E i, j \in JobIds :
       /\ i # j
       /\ pulls[i] = 1 /\ sends[i] = 1 /\ ~Executing(i)
       /\ pulls[j] = 1 /\ sends[j] = 1 /\ ~Executing(j)
       /\ resp = [job |-> j, err |-> "ErrUnknownJobType"]

\* the EnqueueJob call for job j can take its next step
EnqueueCanStep(j) ==
    /\ jpc[j] = "checked" => ENABLED Enqueue_Send(j)
    /\ (jpc[j] = "new" /\ \A i \in JobIds : i < j => jpc[i] \notin {"new", "checked"})
          => ENABLED Enqueue_Check(j)

\* C36: an EnqueueJob call is never blocked, whatever its job's reply
\* channel holds; when it rejects the job, for the stop signal or the full
\* queue, and the reply channel does not take the result, the call returns
\* with nothing written on any reply channel and with the job not in the
\* queue, which it leaves as it was.
C36_RejectOnBlockedChannel ==
    /\ [](\A j \in JobIds : EnqueueCanStep(j))
    /\ [][\A j \in JobIds :
             EnqueueReturns(j) /\ jpc'[j] = "rejected" /\ sends'[j] = sends[j]
                => /\ resp' = resp
                   /\ sends' = sends
                   /\ queue' = queue
                   /\ \A i \in 1..Len(queue') : queue'[i] # j]_vars

\* the queue is full of jobs still waiting, the job after them was rejected
\* and Stop has not been called; no reply channel has been written since the
\* callers handed them in
C36_Witness ==
    /\ QueueFull
    /\ stopPc = "none"
    /\ \E j \in JobIds :
          /\ jpc[j] = "rejected"
          /\ \A i \in JobIds : i < j => jpc[i] = "queued" /\ pulls[i] = 0
    /\ resp = [job |-> 0, err |-> ""]
    /\ \A j \in JobIds : sends[j] = 1

\* C35: a handler in waitJob can always return on its context, and on the
\* result as soon as one is on its job's reply channel; it takes a result
\* only if one was written. Once it has answered 504 CANCELED it stays so:
\* the result is delivered to nobody. A worker that comes to send the result
\* of a job whose handler is gone is not blocked, and its send puts the
\* result in the channel's buffer.
C35_WaitReturnsOnResultOrCancel ==
    /\ [](\A j \in JobIds :
             hpc[j] = "serving" /\ EnqueueReturned(j)
                => /\ ENABLED Wait_Cancel(j)
                   /\ (sends[j] > 0 => ENABLED Wait_Receive(j)))
    /\ [](\A w \in Workers : wpc[w] = "reply" => ENABLED Worker_Reply(w))
    /\ [][\A j \in JobIds :
             /\ (hpc[j] = "canceled" => hpc'[j] = "canceled")
             /\ (hpc[j] # "answered" /\ hpc'[j] = "answered"
                   => hpc[j] = "serving" /\ sends[j] = 1)]_vars
    /\ [][\A w \in Workers :
             /\ wpc[w] = "reply"
             /\ hpc[wjob[w].id] = "canceled"
             /\ wpc'[w] # "reply"
             => /\ sends[wjob[w].id] = 0
                /\ sends'[wjob[w].id] = 1
                /\ resp' = [job |-> wjob[w].id, err |-> wres[w]]
                /\ hpc' = hpc]_vars

\* a handler has answered 504 CANCELED with nothing on its reply channel,
\* its job was executed and the worker is about to send the result; another
\* handler has received its job's result
C35_Witness ==
    \E w \in Workers :
       /\ wpc[w] = "reply"
       /\ wres[w] = "ErrNotFound"
       /\ hpc[wjob[w].id] = "canceled"
       /\ sends[wjob[w].id] = 0
       /\ \E i \in JobIds : hpc[i] = "answered"

====
